---------------------------- MODULE Spec2Model ----------------------------
(***************************************************************************)
(* A model of openrecall_for_macs_on_intel/utils.py: the relative-time     *)
(* formatter and the three platform-activity queries (active application   *)
(* name, active window title, user activity from the HID idle time).       *)
(*                                                                         *)
(* Python values are modelled as follows.  A str is a TLA+ string (TLC     *)
(* evaluates Len, SubSeq and \o on strings).  A dict is a function whose   *)
(* domain is the set of keys present.  The outcome of a call is a record   *)
(* [kind, val]: kind "return" with the returned value, or kind "raise"     *)
(* with the exception class.                                               *)
(***************************************************************************)
EXTENDS Integers, Sequences, FiniteSets, TLC

VARIABLES
    platform,                    \* sys.platform
    NSWorkspace,                 \* module global bound by the AppKit import
    CGWindowListCopyWindowInfo,  \* module global bound by the Quartz import
    subprocess,                  \* module global bound by "import subprocess"
    focus,                       \* what activeApplication() does now
    windows,                     \* what CGWindowListCopyWindowInfo(...) does now
    ioreg,                       \* what the ioreg command does now
    clock,                       \* the wall clock, seconds since the epoch
    utcoffset,                   \* the local zone's offset from UTC, seconds
    pc,                          \* "ready": no result pending; "done": a call has returned
    op,                          \* the operation that returned
    arg,                         \* its argument (human_readable_time's timestamp)
    result,                      \* its outcome
    enumCalls,                   \* calls of CGWindowListCopyWindowInfo it made
    proc,                        \* the ioreg child of the is_user_active call in progress
    blocked,                     \* an is_user_active call is waiting in check_output
    elapsed,                     \* seconds that call has waited for the child
    memo                         \* history: one earlier call, its inputs and its outcome

modvars == <<platform, NSWorkspace, CGWindowListCopyWindowInfo, subprocess>>
envvars == <<focus, windows, ioreg>>
timevars == <<clock, utcoffset>>
callvars == <<pc, op, arg, result, enumCalls>>
childvars == <<proc, blocked, elapsed>>
vars == <<modvars, envvars, timevars, callvars, childvars, memo>>

---------------------------------------------------------------------------
(* Outcomes of a call. *)

Return(v) == [kind |-> "return", val |-> v]
Raise(e) == [kind |-> "raise", val |-> e]
NoResult == [kind |-> "none", val |-> ""]

(* dict.get(key, default) *)
Get(d, key, default) == IF key \in DOMAIN d THEN d[key] ELSE default

EmptyDict == [k \in {} |-> ""]

Min(S) == CHOOSE x \in S : \A y \in S : x <= y
Max(S) == CHOOSE x \in S : \A y \in S : x >= y

---------------------------------------------------------------------------
(* human_readable_time *)

SecondsPerDay == 24 * 3600

(* datetime.datetime.now(): the naive local time *)
Now == clock + utcoffset

(* datetime.datetime.fromtimestamp(timestamp): the naive local time of an
   instant given in seconds since the epoch *)
FromTimestamp(timestamp) == timestamp + utcoffset

(* The timedelta a - b of two naive datetimes a and b (in whole seconds),
   normalised as datetime.timedelta does: 0 <= seconds < 86400, and days
   carries the sign. *)
Timedelta(a, b) ==
    [days |-> (a - b) \div SecondsPerDay, seconds |-> (a - b) % SecondsPerDay]

(* A variant that never looks at diff.days. *)
HumanReadableTimeNoDays(timestamp) ==
    LET diff == Timedelta(Now, FromTimestamp(timestamp))
    IN  IF diff.seconds < 60 THEN ToString(diff.seconds) \o " seconds ago"
        ELSE IF diff.seconds < 3600 THEN ToString(diff.seconds \div 60) \o " minutes ago"
        ELSE ToString(diff.seconds \div 3600) \o " hours ago"

(* human_readable_time(timestamp) *)
human_readable_time(timestamp) ==
    LET diff == Timedelta(Now, FromTimestamp(timestamp))
    IN  IF diff.days > 0 THEN ToString(diff.days) \o " days ago"
        ELSE IF diff.seconds < 60 THEN ToString(diff.seconds) \o " seconds ago"
        ELSE IF diff.seconds < 3600 THEN ToString(diff.seconds \div 60) \o " minutes ago"
        ELSE ToString(diff.seconds \div 3600) \o " hours ago"

---------------------------------------------------------------------------
(* get_active_app_name_osx, get_active_window_title_osx *)

(* A variant without the except clause: the exception reaches the caller. *)
CatchPropagates(outcome, value) == outcome

(* try: body / except: return value.  A bare "except:" and "except
   Exception" both catch every exception the native bindings raise. *)
Catch(outcome, value) ==
    IF outcome.kind = "raise" THEN Return(value) ELSE outcome

(* NSWorkspace.sharedWorkspace().activeApplication().get("NSApplicationName", "").
   activeApplication() raises a native error, returns nil (None, on which
   .get raises AttributeError) or returns the application's dict. *)
ActiveApplicationName ==
    IF focus.kind = "raise" THEN Raise("objc.error")
    ELSE IF focus.kind = "nil" THEN Raise("AttributeError")
    ELSE Return(Get(focus.app, "NSApplicationName", ""))

get_active_app_name_osx ==
    IF NSWorkspace = "None" THEN Return("")
    ELSE Catch(ActiveApplicationName, "")

(* A variant of the loop that does not look at kCGWindowLayer. *)
RECURSIVE ScanWindowsAnyLayer(_, _, _)
ScanWindowsAnyLayer(window_list, i, app_name) ==
    IF i > Len(window_list) THEN ""
    ELSE LET window == window_list[i]
         IN  IF /\ "kCGWindowOwnerName" \in DOMAIN window
                /\ window["kCGWindowOwnerName"] = app_name
                /\ "kCGWindowName" \in DOMAIN window
                /\ Get(window, "kCGWindowName", "") # ""
             THEN Get(window, "kCGWindowName", "")
             ELSE ScanWindowsAnyLayer(window_list, i + 1, app_name)

(* The loop over window_list from position i on: the first window of the
   application app_name on layer 0 whose kCGWindowName is present and
   non-empty, or "" when the loop ends. *)
RECURSIVE ScanWindows(_, _, _)
ScanWindows(window_list, i, app_name) ==
    IF i > Len(window_list) THEN ""
    ELSE LET window == window_list[i]
         IN  IF /\ "kCGWindowOwnerName" \in DOMAIN window
                /\ window["kCGWindowOwnerName"] = app_name
                /\ "kCGWindowLayer" \in DOMAIN window
                /\ window["kCGWindowLayer"] = 0
                /\ "kCGWindowName" \in DOMAIN window
                /\ Get(window, "kCGWindowName", "") # ""
             THEN Get(window, "kCGWindowName", "")
             ELSE ScanWindows(window_list, i + 1, app_name)

(* CGWindowListCopyWindowInfo(options, kCGNullWindowID) followed by the
   loop: the call raises a native error, returns None (iterating it raises
   TypeError) or returns the list, front to back. *)
EnumerateAndScan(app_name) ==
    IF windows.kind = "raise" THEN Raise("objc.error")
    ELSE IF windows.kind = "nil" THEN Raise("TypeError")
    ELSE Return(ScanWindows(windows.list, 1, app_name))

(* A variant that lists the windows before it looks at the application
   name. *)
get_active_window_title_osx_enum_first ==
    IF CGWindowListCopyWindowInfo = "None"
    THEN [outcome |-> Return(""), enum |-> 0]
    ELSE LET app_name == get_active_app_name_osx
         IN  IF app_name.kind = "raise" \/ app_name.val = ""
             THEN [outcome |-> Return(""), enum |-> 1]
             ELSE [outcome |-> Catch(EnumerateAndScan(app_name.val), ""),
                   enum |-> 1]

(* The function's outcome and the number of calls of
   CGWindowListCopyWindowInfo it made.  kCGNullWindowID and
   kCGWindowListOptionOnScreenOnly are bound by the same import statement as
   CGWindowListCopyWindowInfo: the three are None together. *)
get_active_window_title_osx ==
    IF CGWindowListCopyWindowInfo = "None"
    THEN [outcome |-> Return(""), enum |-> 0]
    ELSE LET app_name == get_active_app_name_osx
         IN  IF app_name.kind = "raise"
             THEN [outcome |-> Catch(app_name, ""), enum |-> 0]
             ELSE IF app_name.val = ""
             THEN [outcome |-> Return(""), enum |-> 0]
             ELSE [outcome |-> Catch(EnumerateAndScan(app_name.val), ""),
                   enum |-> 1]

---------------------------------------------------------------------------
(* Platform dispatch *)

NotImplemented == Raise("NotImplementedError")

(* A variant that returns the docstring's "empty string if the platform is
   unsupported". *)
get_active_app_name_default ==
    IF platform = "darwin" THEN get_active_app_name_osx ELSE Return("")

get_active_app_name ==
    IF platform = "darwin" THEN get_active_app_name_osx ELSE NotImplemented

get_active_window_title ==
    IF platform = "darwin" THEN get_active_window_title_osx
    ELSE [outcome |-> NotImplemented, enum |-> 0]

---------------------------------------------------------------------------
(* str and int operations used by is_user_active_osx.  They are functions
   of the strings they are applied to. *)

CharAt(s, i) == SubSeq(s, i, i)

(* pattern in s *)
Contains[s \in STRING, pattern \in STRING] ==
    \E i \in 1..(Len(s) - Len(pattern) + 1) :
        SubSeq(s, i, i + Len(pattern) - 1) = pattern

(* s.split(sep)[-1]: what follows the last sep, or s itself without one *)
LastField[s \in STRING, sep \in STRING] ==
    LET at == {i \in 1..Len(s) : CharAt(s, i) = sep}
    IN  IF at = {} THEN s ELSE SubSeq(s, Max(at) + 1, Len(s))

Whitespace == {" ", "\t"}

(* s.strip() *)
Strip[s \in STRING] ==
    LET inked == {i \in 1..Len(s) : CharAt(s, i) \notin Whitespace}
    IN  IF inked = {} THEN "" ELSE SubSeq(s, Min(inked), Max(inked))

DecimalDigits == "0123456789"
DigitChars == {CharAt(DecimalDigits, i) : i \in 1..Len(DecimalDigits)}
DigitValue(c) == CHOOSE d \in 0..9 : CharAt(DecimalDigits, d + 1) = c

WithoutUnderscores[s \in STRING] ==
    IF s = "" THEN ""
    ELSE IF Head(s) = "_" THEN WithoutUnderscores[Tail(s)]
    ELSE Head(s) \o WithoutUnderscores[Tail(s)]

(* int(s) for a stripped s: an optional sign, then decimal digits, single
   underscores allowed between digits.  A Python int has no width: the
   value is kept as its sign and its decimal digits.  ok = FALSE stands
   for ValueError. *)
PyInt[s \in STRING] ==
    LET signed == s # "" /\ Head(s) \in {"+", "-"}
        body == IF signed THEN Tail(s) ELSE s
        wellFormed ==
            /\ body # ""
            /\ \A i \in 1..Len(body) : CharAt(body, i) \in DigitChars \cup {"_"}
            /\ Head(body) # "_"
            /\ CharAt(body, Len(body)) # "_"
            /\ \A i \in 1..(Len(body) - 1) :
                   ~(CharAt(body, i) = "_" /\ CharAt(body, i + 1) = "_")
    IN  IF wellFormed
        THEN [ok |-> TRUE, neg |-> (signed /\ Head(s) = "-"),
              digits |-> WithoutUnderscores[body]]
        ELSE [ok |-> FALSE, neg |-> FALSE, digits |-> ""]

(* What int() yields. *)
PyInts == [ok : BOOLEAN, neg : BOOLEAN, digits : STRING]

(* The digits of a value without its leading zeros: "" for zero. *)
StripZeros[digits \in STRING] ==
    LET significant == {i \in 1..Len(digits) : CharAt(digits, i) # "0"}
    IN  IF significant = {} THEN ""
        ELSE SubSeq(digits, Min(significant), Len(digits))

(* The value of a digit string of at most 9 digits. *)
Value[digits \in STRING] ==
    IF digits = "" THEN 0
    ELSE 10 * Value[SubSeq(digits, 1, Len(digits) - 1)]
         + DigitValue(CharAt(digits, Len(digits)))

NanosPerSecond == 1000000000
IdleThreshold == 5

(* The decimal places 1_000_000_000 shifts by *)
NanoDigits == Len(ToString(NanosPerSecond)) - 1

(* idle_time / 1_000_000_000 for a Python int n: the quotient's whole part
   (its digits) and its fraction in nanoseconds.  The binary64 result of
   the division is the nearest double to this quotient; a whole part w
   with a non-zero fraction lies at least 1e-9 from w and from w + 1, far
   more than half an ulp of any double below 2^22, so comparing the double
   with an integer below 2^22 is comparing this quotient with it. *)
TrueDivNanos[n \in PyInts] ==
    LET d == StripZeros[n.digits]
        cut == IF Len(d) > NanoDigits THEN Len(d) - NanoDigits ELSE 0
    IN  [neg |-> n.neg /\ d # "",
         whole |-> SubSeq(d, 1, cut),
         nanos |-> Value[SubSeq(d, cut + 1, Len(d))]]

(* A variant with idle_seconds <= 5.0. *)
BelowThresholdInclusive(idle_seconds) ==
    \/ idle_seconds.neg
    \/ /\ Len(idle_seconds.whole) <= 9
       /\ \/ Value[idle_seconds.whole] < IdleThreshold
          \/ Value[idle_seconds.whole] = IdleThreshold /\ idle_seconds.nanos = 0

(* idle_seconds < 5.0.  A whole part of more than 9 digits is at least
   10^9. *)
BelowThreshold(idle_seconds) ==
    \/ idle_seconds.neg
    \/ Len(idle_seconds.whole) <= 9 /\ Value[idle_seconds.whole] < IdleThreshold

---------------------------------------------------------------------------
(* is_user_active_osx *)

Timeout == 1

(* The loop over output.splitlines() from line i on: the first line that
   contains "HIDIdleTime" decides; int() raises ValueError on a value that
   is no integer; without such a line the function returns True. *)
RECURSIVE ScanOutput(_, _)
ScanOutput(lines, i) ==
    IF i > Len(lines) THEN Return(TRUE)
    ELSE IF Contains[lines[i], "HIDIdleTime"]
    THEN LET idle_time == PyInt[Strip[LastField[lines[i], "="]]]
         IN  IF idle_time.ok
             THEN Return(BelowThreshold(TrueDivNanos[idle_time]))
             ELSE Raise("ValueError")
    ELSE ScanOutput(lines, i + 1)

(* subprocess.check_output([...], timeout=1).decode() for a child that has
   exited: CalledProcessError on a non-zero status, UnicodeDecodeError on
   bytes that are not UTF-8, else the text, here already split in lines. *)
CheckOutput(child) ==
    IF child.kind = "nonzero" THEN Raise("CalledProcessError")
    ELSE IF child.kind = "baddecode" THEN Raise("UnicodeDecodeError")
    ELSE Return(child.output)

(* A variant without the final "except Exception": what the parsing raises
   reaches the caller. *)
AfterExitUncaught(child) ==
    LET output == CheckOutput(child)
    IN  IF output.kind = "raise" THEN Catch(output, TRUE)
        ELSE ScanOutput(output.val, 1)

(* The try block once the child has exited, with its except clauses: each
   of them returns True. *)
AfterExit(child) ==
    LET output == CheckOutput(child)
    IN  IF output.kind = "raise" THEN Catch(output, TRUE)
        ELSE Catch(ScanOutput(output.val, 1), TRUE)

(* except subprocess.TimeoutExpired: return True *)
AfterTimeout == Catch(Raise("TimeoutExpired"), TRUE)

(* The child could not be started (ioreg missing): Popen raises OSError,
   caught by "except Exception". *)
AfterSpawnError == Catch(Raise("OSError"), TRUE)

(* A variant for check_output without timeout=1. *)
NeverTimedOut(t) == FALSE

(* check_output's timeout has expired after waiting t seconds *)
TimedOut(t) == t >= Timeout

---------------------------------------------------------------------------
(* The environment the queries read *)

Platforms == {"darwin", "linux", "win32"}
Bindings == {"loaded", "None"}

AppNames == {"Safari", "Terminal"}

NoFocus == [kind |-> "none", app |-> EmptyDict]
FocusRaises == [kind |-> "raise", app |-> EmptyDict]
FocusNil == [kind |-> "nil", app |-> EmptyDict]
Focused(name) == [kind |-> "dict", app |-> [NSApplicationName |-> name]]
FocusNameless == [kind |-> "dict", app |-> EmptyDict]

FocusOutcomes ==
    {FocusRaises, FocusNil, FocusNameless} \cup {Focused(n) : n \in AppNames \cup {""}}

Layers == {0, 25}
Titles == {"", "Inbox", "Docs"}

Window(owner, layer, title) ==
    [kCGWindowOwnerName |-> owner, kCGWindowLayer |-> layer, kCGWindowName |-> title]

(* Window dicts: every owner, layer and title, and dicts that lack a key. *)
WindowDicts ==
    {Window(o, l, t) : o \in AppNames, l \in Layers, t \in Titles}
    \cup {[kCGWindowOwnerName |-> "Safari", kCGWindowLayer |-> 0],
          [kCGWindowOwnerName |-> "Safari", kCGWindowName |-> "Inbox"],
          [kCGWindowLayer |-> 0, kCGWindowName |-> "Inbox"]}

MaxWindows == 2

NoWindows == [kind |-> "none", list |-> <<>>]
WindowsRaise == [kind |-> "raise", list |-> <<>>]
WindowsNil == [kind |-> "nil", list |-> <<>>]
WindowList(l) == [kind |-> "list", list |-> l]

WindowOutcomes ==
    {WindowsRaise, WindowsNil}
    \cup {WindowList(l) : l \in UNION {[1..k -> WindowDicts] : k \in 0..MaxWindows}}

MaxLines == 2
MaxLatency == 2

(* Lines of ioreg output: with and without the key, with values int()
   accepts and values it rejects. *)
OutputLines ==
    {"+-o IOHIDSystem  <class IOHIDSystem, registered, matched, active>",
     "    |   \"HIDKeyRepeat\" = 83333333",
     "    |   \"HIDIdleTime\" = 2000000000",
     "    |   \"HIDIdleTime\" = 6000000000",
     "    |   \"HIDIdleTime\" = <unknown>",
     "    |   \"HIDParameters\" = {\"HIDIdleTime\"=3}",
     "HIDIdleTime: 17",
     "\"HIDIdleTime\" = "}

IdleValues ==
    {w \o n : w \in {"", "4", "5", "6", "12"},
              n \in {"000000000", "000000001", "999999999"}}
    \cup {"0", "42", "-1", "+3000000000", "-7000000000", "6_000_000_000",
          "0005000000000", "5_", "0x12A05F200", "5e9", "5000000000.0",
          "18446744073709551615"}

IdleLine(value) == "    |   \"HIDIdleTime\" = " \o value

Outputs ==
    UNION {[1..k -> OutputLines] : k \in 0..MaxLines}
    \cup {<<IdleLine(v)>> : v \in IdleValues}
    \cup {<<"\"HIDIdleTime\" = 12 = 7000000000">>,
          <<"\t\"HIDIdleTime\"=4999999999 \t">>}

NoProc == [kind |-> "none", latency |-> 0, output |-> <<>>]
Exits(latency, output) == [kind |-> "exit0", latency |-> latency, output |-> output]
ExitsNonZero(latency) == [kind |-> "nonzero", latency |-> latency, output |-> <<>>]
ExitsUndecodable(latency) == [kind |-> "baddecode", latency |-> latency, output |-> <<>>]
CannotStart == [kind |-> "oserror", latency |-> 0, output |-> <<>>]
Hangs == [kind |-> "hang", latency |-> 0, output |-> <<>>]

IoregOutcomes ==
    {CannotStart, Hangs}
    \cup {ExitsNonZero(l) : l \in 0..MaxLatency}
    \cup {ExitsUndecodable(l) : l \in 0..MaxLatency}
    \cup {Exits(l, o) : l \in 0..MaxLatency, o \in Outputs}

(* A small environment for the specification of all three queries. *)
SomeFocus == {FocusRaises, FocusNameless, Focused("Safari"), Focused("Terminal")}
SomeWindows ==
    {WindowsRaise, WindowList(<<>>),
     WindowList(<<Window("Safari", 0, ""), Window("Safari", 0, "Inbox")>>),
     WindowList(<<Window("Safari", 25, "Menu"), Window("Terminal", 0, "zsh")>>)}
SomeIoreg ==
    {Hangs, ExitsNonZero(0),
     Exits(0, <<IdleLine("2000000000")>>), Exits(0, <<IdleLine("6000000000")>>),
     Exits(MaxLatency, <<IdleLine("2000000000")>>)}

MaxDays == 3

(* Elapsed times now - instant, in seconds: past instants, and future
   instants as far ahead. *)
ElapsedTimes ==
    LET past == {d * SecondsPerDay + h * 3600 + m * 60 + sec :
                    d \in 0..MaxDays, h \in {0, 2, 23}, m \in {0, 30, 59},
                    sec \in {0, 45, 59}}
    IN  past \cup {0 - e : e \in past}

Clocks == {1700000000, 1730764800}
UtcOffsets == {0 - 8 * 3600, 0, 3600}

NoMemo == [op |-> "none", focus |-> NoFocus, windows |-> NoWindows,
           proc |-> NoProc, result |-> NoResult]

---------------------------------------------------------------------------
(* Initial states *)

NoCall ==
    /\ pc = "ready" /\ op = "none" /\ arg = 0 /\ result = NoResult
    /\ enumCalls = 0 /\ proc = NoProc /\ blocked = FALSE /\ elapsed = 0
    /\ memo = NoMemo

Init ==
    /\ platform \in Platforms
    /\ NSWorkspace \in Bindings
    /\ CGWindowListCopyWindowInfo \in Bindings
    /\ subprocess \in Bindings
    /\ focus \in SomeFocus /\ windows \in SomeWindows /\ ioreg \in SomeIoreg
    /\ clock = 0 /\ utcoffset = 0
    /\ NoCall

InitWindow ==
    /\ platform = "darwin"
    /\ NSWorkspace \in Bindings
    /\ CGWindowListCopyWindowInfo \in Bindings
    /\ subprocess = "loaded"
    /\ focus \in FocusOutcomes /\ windows \in WindowOutcomes /\ ioreg = Hangs
    /\ clock = 0 /\ utcoffset = 0
    /\ NoCall

InitIdle ==
    /\ platform \in Platforms
    /\ NSWorkspace = "loaded"
    /\ CGWindowListCopyWindowInfo = "loaded"
    /\ subprocess \in Bindings
    /\ focus = FocusNameless /\ windows = WindowList(<<>>)
    /\ ioreg \in IoregOutcomes
    /\ clock = 0 /\ utcoffset = 0
    /\ NoCall

InitTime ==
    /\ platform = "darwin"
    /\ NSWorkspace = "loaded"
    /\ CGWindowListCopyWindowInfo = "loaded"
    /\ subprocess = "loaded"
    /\ focus = FocusNameless /\ windows = WindowList(<<>>) /\ ioreg = Hangs
    /\ clock \in Clocks /\ utcoffset \in UtcOffsets
    /\ NoCall

---------------------------------------------------------------------------
(* The calls *)

(* A variant that unbinds NSWorkspace once the focus lookup has failed. *)
GlobalsDisabledOnFailure ==
    [NSWorkspace |-> IF focus.kind = "raise" THEN "None" ELSE NSWorkspace,
     CGWindowListCopyWindowInfo |-> CGWindowListCopyWindowInfo,
     subprocess |-> subprocess]

(* The module globals after a call: no function of the module assigns
   them. *)
GlobalsAfterCall ==
    [NSWorkspace |-> NSWorkspace,
     CGWindowListCopyWindowInfo |-> CGWindowListCopyWindowInfo,
     subprocess |-> subprocess]

KeepGlobals ==
    /\ platform' = platform
    /\ NSWorkspace' = GlobalsAfterCall.NSWorkspace
    /\ CGWindowListCopyWindowInfo' = GlobalsAfterCall.CGWindowListCopyWindowInfo
    /\ subprocess' = GlobalsAfterCall.subprocess

(* A call returns or raises: its outcome is pending until the caller takes
   it. *)
Finish(operation, outcome, enum) ==
    /\ pc' = "done" /\ op' = operation /\ result' = outcome /\ enumCalls' = enum
    /\ KeepGlobals
    /\ UNCHANGED <<envvars, timevars, memo>>

CallHumanReadableTime ==
    /\ pc = "ready"
    /\ \E e \in ElapsedTimes :
        /\ arg' = clock - e
        /\ Finish("human_readable_time", Return(human_readable_time(clock - e)), 0)
    /\ UNCHANGED childvars

CallGetActiveAppName ==
    /\ pc = "ready"
    /\ Finish("get_active_app_name", get_active_app_name, 0)
    /\ UNCHANGED <<arg, childvars>>

CallGetActiveWindowTitle ==
    /\ pc = "ready"
    /\ Finish("get_active_window_title", get_active_window_title.outcome,
              get_active_window_title.enum)
    /\ UNCHANGED <<arg, childvars>>

(* is_user_active up to check_output: it raises on another platform,
   returns True without subprocess or when ioreg cannot be started, and
   otherwise starts the child and waits for it. *)
CallIsUserActive ==
    /\ pc = "ready" /\ ~blocked
    /\ IF platform # "darwin"
       THEN Finish("is_user_active", NotImplemented, 0) /\ UNCHANGED childvars
       ELSE IF subprocess = "None"
       THEN Finish("is_user_active", Return(TRUE), 0) /\ UNCHANGED childvars
       ELSE IF ioreg.kind = "oserror"
       THEN /\ Finish("is_user_active", AfterSpawnError, 0)
            /\ proc' = ioreg /\ UNCHANGED <<blocked, elapsed>>
       ELSE /\ proc' = ioreg /\ blocked' = TRUE /\ elapsed' = 0
            /\ KeepGlobals
            /\ UNCHANGED <<envvars, timevars, callvars, memo>>
    /\ UNCHANGED arg

(* A second passes while the child runs.  The wait is counted no further
   than one second past the longest run of a child. *)
IoregRuns ==
    /\ blocked /\ ~TimedOut(elapsed) /\ elapsed <= MaxLatency
    /\ proc.kind = "hang" \/ proc.latency > elapsed
    /\ elapsed' = elapsed + 1
    /\ UNCHANGED <<modvars, envvars, timevars, callvars, proc, blocked, memo>>

(* The child exits before the timeout: check_output returns or raises. *)
IoregExits ==
    /\ blocked /\ pc = "ready"
    /\ proc.kind # "hang" /\ proc.latency <= elapsed /\ ~TimedOut(elapsed)
    /\ Finish("is_user_active", AfterExit(proc), 0)
    /\ blocked' = FALSE
    /\ UNCHANGED <<arg, proc, elapsed>>

(* The timeout expires: check_output kills the child and raises
   TimeoutExpired. *)
IoregTimesOut ==
    /\ blocked /\ pc = "ready"
    /\ TimedOut(elapsed)
    /\ Finish("is_user_active", AfterTimeout, 0)
    /\ blocked' = FALSE
    /\ UNCHANGED <<arg, proc, elapsed>>

(* What a finished call read: the inputs the history keeps with its
   outcome. *)
CallRecord ==
    IF op = "is_user_active"
    THEN [op |-> op, focus |-> NoFocus, windows |-> NoWindows, proc |-> proc,
          result |-> result]
    ELSE [op |-> op, focus |-> focus, windows |-> windows, proc |-> NoProc,
          result |-> result]

(* The caller takes the outcome; with remember, the history keeps the
   call. *)
Deliver(remember) ==
    /\ pc = "done"
    /\ pc' = "ready" /\ op' = "none" /\ arg' = 0 /\ result' = NoResult
    /\ enumCalls' = 0
    /\ IF op = "is_user_active"
       THEN proc' = NoProc /\ elapsed' = 0
       ELSE UNCHANGED <<proc, elapsed>>
    /\ memo' = IF remember THEN CallRecord ELSE memo
    /\ UNCHANGED <<modvars, envvars, timevars, blocked>>

(* The environment changes between calls. *)
FocusChanges ==
    /\ pc = "ready"
    /\ \E f \in SomeFocus \ {focus} : focus' = f
    /\ UNCHANGED <<modvars, windows, ioreg, timevars, callvars, childvars, memo>>

WindowsChange ==
    /\ pc = "ready"
    /\ \E w \in SomeWindows \ {windows} : windows' = w
    /\ UNCHANGED <<modvars, focus, ioreg, timevars, callvars, childvars, memo>>

IdleTimeChanges ==
    /\ pc = "ready"
    /\ \E i \in SomeIoreg \ {ioreg} : ioreg' = i
    /\ UNCHANGED <<modvars, focus, windows, timevars, callvars, childvars, memo>>

---------------------------------------------------------------------------
(* Specifications *)

Next ==
    \/ CallGetActiveAppName
    \/ CallGetActiveWindowTitle
    \/ CallIsUserActive
    \/ IoregRuns
    \/ IoregExits
    \/ IoregTimesOut
    \/ \E remember \in BOOLEAN : Deliver(remember)
    \/ FocusChanges
    \/ WindowsChange
    \/ IdleTimeChanges

Spec == Init /\ [][Next]_vars

NextWindow ==
    \/ CallGetActiveAppName
    \/ CallGetActiveWindowTitle
    \/ Deliver(FALSE)

SpecWindow == InitWindow /\ [][NextWindow]_vars

NextIdle ==
    \/ CallIsUserActive
    \/ IoregRuns
    \/ IoregExits
    \/ IoregTimesOut
    \/ Deliver(FALSE)

SpecIdle == InitIdle /\ [][NextIdle]_vars

(* Time passes, a child that has exited is reaped and an expired timeout is
   acted on: the steps that wait on nothing but the clock. *)
LiveIdle == SpecIdle /\ WF_vars(IoregRuns) /\ WF_vars(IoregExits)
            /\ WF_vars(IoregTimesOut)

NextTime ==
    \/ CallHumanReadableTime
    \/ Deliver(FALSE)

SpecTime == InitTime /\ [][NextTime]_vars

---------------------------------------------------------------------------
(* Properties *)

Returned(operation) == pc = "done" /\ op = operation

(* The lines of the child's output that contain the key. *)
IdleLines(output) == {i \in 1..Len(output) : Contains[output[i], "HIDIdleTime"]}

(* The text int() is given: the value of the first line with the key. *)
IdleText(output) == Strip[LastField[output[Min(IdleLines(output))], "="]]

(* The idle-time query of the call that returned failed: no subprocess
   module, ioreg could not be started, hung, ran into the timeout, exited
   with a non-zero status, printed bytes that do not decode, printed no
   HIDIdleTime line, or printed a value that is no integer. *)
IdleQueryFailed ==
    \/ subprocess = "None"
    \/ proc.kind \in {"oserror", "hang", "nonzero", "baddecode"}
    \/ proc.kind = "exit0" /\ proc.latency >= Timeout
    \/ proc.kind = "exit0" /\ IdleLines(proc.output) = {}
    \/ /\ proc.kind = "exit0" /\ IdleLines(proc.output) # {}
       /\ ~PyInt[IdleText(proc.output)].ok

(* The idle-time query of the call that returned succeeded with an
   integer. *)
IdleQuerySucceeded ==
    /\ subprocess = "loaded"
    /\ proc.kind = "exit0" /\ proc.latency < Timeout
    /\ IdleLines(proc.output) # {}
    /\ PyInt[IdleText(proc.output)].ok

(* a < b for two digit strings of the same length *)
RECURSIVE DigitsLess(_, _)
DigitsLess(a, b) ==
    IF a = "" THEN FALSE
    ELSE IF Head(a) # Head(b) THEN DigitValue(Head(a)) < DigitValue(Head(b))
    ELSE DigitsLess(Tail(a), Tail(b))

(* n < bound for a Python int n and a positive bound given in digits *)
IntBelow(n, bound) ==
    LET d == StripZeros[n.digits]
    IN  \/ n.neg
        \/ Len(d) < Len(bound)
        \/ Len(d) = Len(bound) /\ DigitsLess(d, bound)

(* C1: on the supported platform, when the idle-time query fails in any
   way, is_user_active returns True and raises nothing. *)
C1_FailOpen ==
    (Returned("is_user_active") /\ platform = "darwin" /\ IdleQueryFailed)
        => result = Return(TRUE)

C1_Witness ==
    /\ Returned("is_user_active") /\ platform = "darwin"
    /\ proc.kind = "exit0" /\ proc.latency < Timeout
    /\ IdleLines(proc.output) # {}
    /\ ~PyInt[IdleText(proc.output)].ok
    /\ result = Return(TRUE)

(* C2: when the query succeeds with an integer idle time in nanoseconds,
   is_user_active returns True exactly if it is below 5,000,000,000. *)
C2_Threshold ==
    (Returned("is_user_active") /\ platform = "darwin" /\ IdleQuerySucceeded)
        => result = Return(IntBelow(PyInt[IdleText(proc.output)], "5000000000"))

C2_Witness ==
    /\ Returned("is_user_active") /\ platform = "darwin" /\ IdleQuerySucceeded
    /\ IdleText(proc.output) = "5000000000"
    /\ result = Return(FALSE)

(* C3: on a platform other than darwin each of the three queries raises
   NotImplementedError and returns no default. *)
C3_Unsupported ==
    (pc = "done" /\ platform # "darwin"
     /\ op \in {"get_active_app_name", "get_active_window_title", "is_user_active"})
        => result = Raise("NotImplementedError")

C3_Witness ==
    /\ Returned("get_active_app_name") /\ platform = "linux"
    /\ result = Raise("NotImplementedError")

(* The focused application name is a non-empty string. *)
FocusedAppName ==
    IF /\ NSWorkspace = "loaded" /\ focus.kind = "dict"
       /\ "NSApplicationName" \in DOMAIN focus.app
    THEN focus.app["NSApplicationName"]
    ELSE ""

(* The windows of the list that belong to the application, lie on layer 0
   and have a title that is present and non-empty. *)
TitledWindows(list, app_name) ==
    {i \in 1..Len(list) :
        /\ {"kCGWindowOwnerName", "kCGWindowLayer", "kCGWindowName"}
               \subseteq DOMAIN list[i]
        /\ list[i]["kCGWindowOwnerName"] = app_name
        /\ list[i]["kCGWindowLayer"] = 0
        /\ list[i]["kCGWindowName"] # ""}

(* C4: for a window list and a non-empty focused application name,
   get_active_window_title returns the title of the first window in list
   order that belongs to the application, lies on layer 0 and has a
   non-empty title, and "" when there is none. *)
C4_FirstTitledWindow ==
    (/\ Returned("get_active_window_title") /\ platform = "darwin"
     /\ CGWindowListCopyWindowInfo = "loaded" /\ windows.kind = "list"
     /\ FocusedAppName # "")
        => LET titled == TitledWindows(windows.list, FocusedAppName)
           IN  result = Return(IF titled = {} THEN ""
                               ELSE windows.list[Min(titled)]["kCGWindowName"])

C4_Witness ==
    /\ Returned("get_active_window_title")
    /\ focus = Focused("Safari")
    /\ windows = WindowList(<<Window("Safari", 0, ""), Window("Safari", 0, "Inbox")>>)
    /\ result = Return("Inbox")

(* A capability the query needs is absent or fails in the call. *)
FocusUnavailable == NSWorkspace = "None" \/ focus.kind \in {"raise", "nil"}
WindowsUnavailable ==
    CGWindowListCopyWindowInfo = "None" \/ windows.kind \in {"raise", "nil"}

(* C5: on the supported platform get_active_app_name and
   get_active_window_title return a string and never raise, whatever the
   focus and window facilities do; with a facility absent or failing the
   result is "". *)
C5_NeverRaises ==
    /\ (Returned("get_active_app_name") /\ platform = "darwin")
           => /\ result.kind = "return"
              /\ result.val \in AppNames \cup {""}
              /\ FocusUnavailable => result.val = ""
    /\ (Returned("get_active_window_title") /\ platform = "darwin")
           => /\ result.kind = "return"
              /\ result.val \in Titles
              /\ (FocusUnavailable \/ WindowsUnavailable) => result.val = ""

C5_Witness ==
    /\ Returned("get_active_window_title") /\ platform = "darwin"
    /\ NSWorkspace = "loaded" /\ focus = Focused("Safari")
    /\ CGWindowListCopyWindowInfo = "loaded" /\ windows.kind = "raise"
    /\ result = Return("")

(* The elapsed time now - instant of the call that returned, in seconds. *)
Elapsed == clock - arg

(* C6: for a non-negative elapsed time e, human_readable_time returns
   "<e div 86400> days ago" from one day on, else "<e> seconds ago" below a
   minute, else "<e div 60> minutes ago" below an hour, else
   "<e div 3600> hours ago". *)
C6_RelativeTime ==
    (Returned("human_readable_time") /\ Elapsed >= 0)
        => result = Return(
               IF Elapsed >= 86400 THEN ToString(Elapsed \div 86400) \o " days ago"
               ELSE IF Elapsed < 60 THEN ToString(Elapsed) \o " seconds ago"
               ELSE IF Elapsed < 3600 THEN ToString(Elapsed \div 60) \o " minutes ago"
               ELSE ToString(Elapsed \div 3600) \o " hours ago")

C6_Witness ==
    /\ Returned("human_readable_time")
    /\ Elapsed = 3 * 86400 + 2 * 3600 + 30 * 60
    /\ result = Return("3 days ago")

(* C7: every is_user_active call that waits for ioreg returns a boolean,
   and returns True when ioreg never answers. *)
C7_Returns ==
    [](blocked =>
        <>(/\ Returned("is_user_active") /\ result.kind = "return"
           /\ result.val \in BOOLEAN
           /\ proc.kind = "hang" => result.val = TRUE))

C7_Witness ==
    /\ Returned("is_user_active") /\ proc.kind = "hang"
    /\ elapsed >= Timeout /\ result = Return(TRUE)

(* C8: when the focused application name resolves to "",
   get_active_window_title returns "" and makes no call of the window
   enumeration. *)
C8_NoEnumeration ==
    (Returned("get_active_window_title") /\ platform = "darwin"
     /\ FocusedAppName = "")
        => result = Return("") /\ enumCalls = 0

C8_Witness ==
    /\ Returned("get_active_window_title") /\ platform = "darwin"
    /\ CGWindowListCopyWindowInfo = "loaded" /\ focus = Focused("")
    /\ windows.kind = "list" /\ Len(windows.list) > 0
    /\ result = Return("") /\ enumCalls = 0

(* C9: for an instant in the future (a negative elapsed time),
   human_readable_time returns "0 seconds ago". *)
C9_FutureIsZeroSeconds ==
    (Returned("human_readable_time") /\ Elapsed < 0)
        => result = Return("0 seconds ago")

(* The call that returned read what the remembered call read. *)
SameAsRemembered ==
    /\ pc = "done" /\ memo.op = op
    /\ IF op = "is_user_active" THEN memo.proc = proc
       ELSE memo.focus = focus /\ memo.windows = windows

(* C10: no step changes the state the module keeps (its globals), and a
   call returns what an earlier call of the same query returned under the
   same environment, whatever was called in between. *)
C10_Stateless ==
    [][/\ modvars' = modvars
       /\ SameAsRemembered' => result' = memo'.result]_vars

C10_Witness ==
    /\ SameAsRemembered /\ op = "get_active_window_title"
    /\ blocked
    /\ result = Return("Inbox") /\ memo.result = result

===========================================================================
